---- MODULE Spec2Model ----
(***************************************************************************)
(* A model of the Ontario tenancy-law assistant: the LLM provider adapters *)
(* and their factory, the prompt templates, the assistant facade, the      *)
(* document processor (splitting, batch parsing, temp-directory cleanup)   *)
(* and the Streamlit script that drives them.                              *)
(*                                                                         *)
(* Text is modelled as a sequence of tokens, each token a piece of the     *)
(* text (a character or a longer chunk); concatenation is \o.  The hosted  *)
(* LLM, the hosted document parser and the PDF library are the             *)
(* environment: their outcomes are chosen with \E by the actions.          *)
(***************************************************************************)
EXTENDS Integers, Sequences, FiniteSets, TLC

VARIABLES
    call,        \* a component operation and its inputs (the environment's answers included)
    result,      \* its outcome, Pending until the operation has run
    temp_root,   \* the entries of the temp_files directory
    now,         \* the wall clock: [day, tod], tod = 0 is exactly midnight
    messages,             \* st.session_state.messages
    processed_documents,  \* st.session_state.processed_documents
    input_method,         \* the radio of the contract analyzer
    uploaded_file,        \* the file uploader's file, if any
    text_input,           \* the text area's text
    buttons,              \* the buttons the last script run rendered
    upload_parse_calls,   \* parsing-service calls made for the file now in the uploader
    leaked_temp_files,    \* temporary files left on disk
    run                   \* what the last script run did

opsVars == <<call, result>>
cleanupVars == <<temp_root, now>>
appVars == <<messages, processed_documents, input_method, uploaded_file, text_input,
             buttons, upload_parse_calls, leaked_temp_files, run>>
vars == <<opsVars, cleanupVars, appVars>>

(***************************************************************************)
(* Bounds of the model.                                                    *)
(***************************************************************************)
MaxOutcomes == 4     \* hosted-call outcomes the environment prepares per request
MaxTextLen == 2      \* length of the texts fed to the prompt templates
MaxPages == 3        \* pages of a PDF
MaxTitleLen == 2     \* characters of a PDF's metadata title
MaxPaths == 3        \* paths handed to parse_document
MaxDay == 8          \* days the clock runs
TicksPerDay == 2     \* clock ticks in a day
MaxDirs == 2         \* day-stamped directories under temp_files at a time
MaxKeep == 2         \* largest days_to_keep passed explicitly
MaxMessages == 3     \* chat messages of a session
MaxDocs == 2         \* processed documents of a session
MaxParseCalls == 2   \* script runs that parse one uploaded file
MaxLeaked == 1       \* temporary files left behind

(***************************************************************************)
(* Python helpers.                                                         *)
(***************************************************************************)
RECURSIVE Concat(_)
\* "".join(parts) for a sequence of texts
Concat(parts) ==
    IF parts = <<>> THEN <<>> ELSE Head(parts) \o Concat(Tail(parts))

\* all texts of length at most n over an alphabet
TextsUpTo(alphabet, n) == UNION {[1..k -> alphabet] : k \in 0..n}

Pending == [kind |-> "pending"]
Return(v) == [kind |-> "return", value |-> v]
Raise(cls, msg) == [kind |-> "raise", cls |-> cls, value |-> msg]

(***************************************************************************)
(* src/config.py                                                           *)
(***************************************************************************)
LLMProvider == {"openai", "groq", "anthropic", "gemini"}

\* temperature is kept in tenths (0.3 is 3)
LLM_CONFIGS ==
    [openai    |-> [model |-> "gpt-3.5-turbo", temperature |-> 3, max_tokens |-> 1000],
     groq      |-> [model |-> "llama-3.1-8b-instant", temperature |-> 2, max_tokens |-> 2000],
     anthropic |-> [model |-> "claude-3-opus-20240229"],
     gemini    |-> [model |-> "gemini-pro"]]

\* os.getenv of an unset variable
NoKey == "None"
ApiKeys == {NoKey, "key"}

(***************************************************************************)
(* src/data/law_text.py and src/utils/prompts.py                           *)
(***************************************************************************)
TENANCY_LAW == <<"# Ontario Rental Law", "... Time limits for filing">>

\* The templates as str.format parses them: literal chunks and the
\* replacement fields, which are the tokens in braces.
LEGAL_ASSISTANT_PROMPT ==
    <<"You are a friendly and knowledgeable legal assistant ... CHAT HISTORY:",
      "{chat_history}",
      "USER QUERY:",
      "{user_query}",
      "RELEVANT LAW:",
      "{law_text}",
      "[end]">>

RENTAL_CONTRACT_ANALYZER_PROMPT ==
    <<"You are an expert rental contract analyzer ... REFERENCE LAW:",
      "{law_text}",
      "RENTAL CONTRACT TO ANALYZE:",
      "{contract_text}",
      "Please provide a comprehensive analysis ... 6. RISK ASSESSMENT ...">>

\* str.replace(field, value): every occurrence of the token, values included
Replace(text, field, value) ==
    Concat([i \in 1..Len(text) |-> IF text[i] = field THEN value ELSE <<text[i]>>])

\* a template filled by chained str.replace calls, which rescans the values
\* already substituted
FormatByReplace(template, kwargs) ==
    LET RECURSIVE Go(_, _)
        Go(text, i) ==
            IF i > Len(template) THEN text
            ELSE IF template[i] \in DOMAIN kwargs
            THEN Go(Replace(text, template[i], kwargs[template[i]]), i + 1)
            ELSE Go(text, i + 1)
    IN Go(template, 1)

\* str.format(**kwargs): one pass over the template; each replacement field
\* gives way to its argument, and the arguments are not scanned again
Format(template, kwargs) ==
    Concat([i \in 1..Len(template) |->
              IF template[i] \in DOMAIN kwargs THEN kwargs[template[i]]
              ELSE <<template[i]>>])

generate_prompt(user_query, law_text, chat_history) ==
    Format(LEGAL_ASSISTANT_PROMPT,
           [x \in {"{user_query}", "{law_text}", "{chat_history}"} |->
              CASE x = "{user_query}" -> user_query
                [] x = "{law_text}" -> law_text
                [] x = "{chat_history}" -> chat_history])

generate_contract_analysis_prompt(contract_text, law_text) ==
    Format(RENTAL_CONTRACT_ANALYZER_PROMPT,
           [x \in {"{contract_text}", "{law_text}"} |->
              IF x = "{contract_text}" THEN contract_text ELSE law_text])

(***************************************************************************)
(* src/src/llm/llm_providers.py                                            *)
(*                                                                         *)
(* An adapter object keeps the settings it was built with and the retry    *)
(* count it configures on its client: ChatGroq is built with               *)
(* max_retries=2, the other adapters configure none.  The hosted call is   *)
(* the environment: `outcomes` is what the successive attempts of one      *)
(* request would meet.                                                     *)
(***************************************************************************)
GroqMaxRetries == 2

\* one attempt's outcome: the response text, or an error (retryable by the
\* client: a connection error, a timeout, a 429 or a 5xx; or not)
Ok(text) == [ok |-> TRUE, body |-> text, retryable |-> FALSE]
Fail(err, retryable) == [ok |-> FALSE, body |-> err, retryable |-> retryable]
Outcomes ==
    {Ok(<<"answer">>), Ok(<<>>), Fail(<<"timeout">>, TRUE), Fail(<<"bad request">>, FALSE)}
OutcomeSeqs == [1..MaxOutcomes -> Outcomes]

RECURSIVE ClientInvoke(_, _, _)
\* the client's call: an attempt, and while it fails with a retryable error
\* and retries are left, another one.  [ok, body, attempts]
ClientInvoke(max_retries, outcomes, attempt) ==
    LET o == outcomes[attempt]
    IN IF ~o.ok /\ o.retryable /\ attempt <= max_retries /\ attempt < Len(outcomes)
       THEN ClientInvoke(max_retries, outcomes, attempt + 1)
       ELSE [ok |-> o.ok, body |-> o.body, attempts |-> attempt]

\* the outcome of a constructor: the object, or the exception it raised
Object(obj) == [kind |-> "object", obj |-> obj]

\* openai.api_key = api_key and three field assignments: nothing can fail
OpenAILLM_init(api_key, config) ==
    Object([cls |-> "OpenAILLM", api_key |-> api_key, config |-> config,
            max_retries |-> 0])

\* the three other constructors build a vendor client, which may reject a
\* missing key (`rejects`: the vendor library's answer)
GroqLLM_init(api_key, config, rejects) ==
    IF api_key = NoKey /\ rejects
    THEN Raise("GroqError", <<"api_key must be set">>)
    ELSE Object([cls |-> "GroqLLM", api_key |-> api_key, config |-> config,
                 max_retries |-> GroqMaxRetries])

AnthropicLLM_init(api_key, config, rejects) ==
    IF api_key = NoKey /\ rejects
    THEN Raise("AnthropicError", <<"api_key must be set">>)
    ELSE Object([cls |-> "AnthropicLLM", api_key |-> api_key, config |-> config,
                 max_retries |-> 0])

GeminiLLM_init(api_key, config, rejects) ==
    IF api_key = NoKey /\ rejects
    THEN Raise("GeminiError", <<"api_key must be set">>)
    ELSE Object([cls |-> "GeminiLLM", api_key |-> api_key, config |-> config,
                 max_retries |-> 0])

\* what get_response makes of the client's call `r`: the text, or
\* Exception(prefix + str(e)).  `sent` is the prompt of each outbound attempt.
Wrapped(prefix, prompt, r) ==
    IF r.ok
    THEN [kind |-> "return", cls |-> "str", value |-> r.body,
          sent |-> [i \in 1..r.attempts |-> prompt]]
    ELSE [kind |-> "raise", cls |-> "Exception", value |-> <<prefix>> \o r.body,
          sent |-> [i \in 1..r.attempts |-> prompt]]

\* the client's error let through as it is
Unwrapped(prefix, prompt, r) ==
    IF r.ok
    THEN [kind |-> "return", cls |-> "str", value |-> r.body,
          sent |-> [i \in 1..r.attempts |-> prompt]]
    ELSE [kind |-> "raise", cls |-> "APIError", value |-> r.body,
          sent |-> [i \in 1..r.attempts |-> prompt]]

\* try: call the client, return the text; except Exception as e: raise
\* Exception(prefix + str(e))
Guarded(prefix, llm, prompt, outcomes) ==
    Wrapped(prefix, prompt, ClientInvoke(llm.max_retries, outcomes, 1))

\* an adapter without the try
Unguarded(prefix, llm, prompt, outcomes) ==
    Unwrapped(prefix, prompt, ClientInvoke(llm.max_retries, outcomes, 1))

OpenAILLM_get_response(llm, prompt, outcomes) ==
    Guarded("OpenAI Error: ", llm, prompt, outcomes)

GroqLLM_get_response_unguarded(llm, prompt, outcomes) ==
    Unguarded("Groq Error: ", llm, prompt, outcomes)

GroqLLM_get_response(llm, prompt, outcomes) ==
    Guarded("Groq Error: ", llm, prompt, outcomes)

AnthropicLLM_get_response(llm, prompt, outcomes) ==
    Guarded("Anthropic Error: ", llm, prompt, outcomes)

GeminiLLM_get_response(llm, prompt, outcomes) ==
    Guarded("Gemini Error: ", llm, prompt, outcomes)

\* llm.get_response(prompt), dispatched on the adapter's class
BaseLLM_get_response(llm, prompt, outcomes) ==
    CASE llm.cls = "OpenAILLM" -> OpenAILLM_get_response(llm, prompt, outcomes)
      [] llm.cls = "GroqLLM" -> GroqLLM_get_response(llm, prompt, outcomes)
      [] llm.cls = "AnthropicLLM" -> AnthropicLLM_get_response(llm, prompt, outcomes)
      [] llm.cls = "GeminiLLM" -> GeminiLLM_get_response(llm, prompt, outcomes)

(***************************************************************************)
(* src/src/llm/llm_factory.py                                              *)
(***************************************************************************)
create_llm(provider, api_key, rejects) ==
    LET config == LLM_CONFIGS[provider]
    IN CASE provider = "openai" -> OpenAILLM_init(api_key, config)
         [] provider = "groq" -> GroqLLM_init(api_key, config, rejects)
         [] provider = "anthropic" -> AnthropicLLM_init(api_key, config, rejects)
         [] provider = "gemini" -> GeminiLLM_init(api_key, config, rejects)
         [] OTHER -> Raise("ValueError", <<"Unsupported LLM provider">>)

\* the adapters create_llm can return for a configured key
Adapters == {create_llm(p, "key", TRUE).obj : p \in LLMProvider}

(***************************************************************************)
(* src/services/legal_assistant.py                                         *)
(*                                                                         *)
(* A facade result keeps `calls`, the prompts handed to the adapter's      *)
(* get_response, and `sent`, the prompt of every outbound attempt.         *)
(***************************************************************************)
\* a facade without the try: the adapter's exception passes through
ForwardedBare(prefix, prompt, r) ==
    IF r.kind = "return"
    THEN [kind |-> "return", cls |-> "str", value |-> r.value,
          calls |-> <<prompt>>, sent |-> r.sent]
    ELSE [kind |-> "raise", cls |-> "Exception", value |-> r.value,
          calls |-> <<prompt>>, sent |-> r.sent]

\* what the facade makes of the adapter's outcome `r`: its text, or
\* Exception(prefix + str(e))
Forwarded(prefix, prompt, r) ==
    IF r.kind = "return"
    THEN [kind |-> "return", cls |-> "str", value |-> r.value,
          calls |-> <<prompt>>, sent |-> r.sent]
    ELSE [kind |-> "raise", cls |-> "Exception", value |-> <<prefix>> \o r.value,
          calls |-> <<prompt>>, sent |-> r.sent]

\* try: return self.llm.get_response(prompt); except Exception as e: raise
Forward(prefix, llm, prompt, outcomes) ==
    Forwarded(prefix, prompt, BaseLLM_get_response(llm, prompt, outcomes))

\* the outcome of a second call of the adapter, after a first one that sent
\* `sent` and raised
Retried(prefix, prompt, sent, r) ==
    IF r.kind = "return"
    THEN [kind |-> "return", cls |-> "str", value |-> r.value,
          calls |-> <<prompt, prompt>>, sent |-> sent \o r.sent]
    ELSE [kind |-> "raise", cls |-> "Exception", value |-> <<prefix>> \o r.value,
          calls |-> <<prompt, prompt>>, sent |-> sent \o r.sent]

ForwardedWithRetry(prefix, llm, prompt, outcomes, r) ==
    IF r.kind = "return" \/ Len(r.sent) = Len(outcomes)
    THEN Forwarded(prefix, prompt, r)
    ELSE Retried(prefix, prompt, r.sent,
                 BaseLLM_get_response(llm, prompt,
                                      SubSeq(outcomes, Len(r.sent) + 1, Len(outcomes))))

\* a facade that calls the adapter a second time when the first call raises
ForwardWithRetry(prefix, llm, prompt, outcomes) ==
    ForwardedWithRetry(prefix, llm, prompt, outcomes,
                       BaseLLM_get_response(llm, prompt, outcomes))

LegalAssistant_get_response_retrying(llm, user_query, chat_history, outcomes) ==
    ForwardWithRetry("Error processing query: ", llm,
                     generate_prompt(user_query, TENANCY_LAW, chat_history), outcomes)

LegalAssistant_get_response(llm, user_query, chat_history, outcomes) ==
    Forward("Error processing query: ", llm,
            generate_prompt(user_query, TENANCY_LAW, chat_history), outcomes)

LegalAssistant_analyze_contract(llm, contract_text, outcomes) ==
    Forward("Error analyzing contract: ", llm,
            generate_contract_analysis_prompt(contract_text, TENANCY_LAW), outcomes)

(***************************************************************************)
(* src/services/document_processor.py                                      *)
(*                                                                         *)
(* An Optional[str] is [is_none, s].  A PDF is what PdfReader makes of the *)
(* bytes: whether it can be read at all, its metadata (reading it raises,  *)
(* there is none, or a dictionary with or without "/Title") and its pages. *)
(***************************************************************************)
None_ == [is_none |-> TRUE, s |-> <<>>]
Some(s) == [is_none |-> FALSE, s |-> s]
\* Python's truth value of an Optional[str]
Truthy(o) == ~o.is_none /\ o.s # <<>>
\* a or b
Or(a, b) == IF Truthy(a) THEN a ELSE b

Whitespace == {" ", "\n", "\t"}
RECURSIVE LStrip(_)
LStrip(s) == IF s # <<>> /\ Head(s) \in Whitespace THEN LStrip(Tail(s)) ELSE s
RECURSIVE RStrip(_)
RStrip(s) ==
    IF s # <<>> /\ s[Len(s)] \in Whitespace THEN RStrip(SubSeq(s, 1, Len(s) - 1)) ELSE s
\* str.strip()
Strip(s) == RStrip(LStrip(s))

DocumentType == {"pdf", "docx"}

\* _extract_pdf_title without the strip
ExtractPdfTitleRaw(reader) ==
    IF reader.metadata.kind # "dict" THEN None_
    ELSE LET title == reader.metadata.title
         IN IF Truthy(title) THEN title ELSE None_

\* try: metadata.get("/Title", None), stripped if truthy, else None;
\* except Exception: None (metadata that raises, metadata that is None)
ExtractPdfTitle(reader) ==
    IF reader.metadata.kind # "dict" THEN None_
    ELSE LET title == reader.metadata.title
         IN IF Truthy(title) THEN Some(Strip(title.s)) ELSE None_

PagePath(temp_dir, i, ext) == [dir |-> temp_dir, stem |-> "page_", n |-> i, ext |-> ext]

RECURSIVE SplitLoopOneWriter(_, _, _, _, _)
\* the loop with one writer created before it: each file holds the pages so far
SplitLoopOneWriter(pages, temp_dir, i, page_files, writes) ==
    IF i > Len(pages) THEN [page_files |-> page_files, writes |-> writes]
    ELSE LET output_filename == PagePath(temp_dir, i, ".pdf")
         IN SplitLoopOneWriter(pages, temp_dir, i + 1,
                               Append(page_files, output_filename),
                               Append(writes, [path |-> output_filename,
                                               content |-> SubSeq(pages, 1, i)]))

RECURSIVE SplitLoop(_, _, _, _, _)
\* for i, page in enumerate(reader.pages, start=1): a new writer holding
\* that page alone is written to page_<i>.pdf.  [page_files, writes]
SplitLoop(pages, temp_dir, i, page_files, writes) ==
    IF i > Len(pages) THEN [page_files |-> page_files, writes |-> writes]
    ELSE LET output_filename == PagePath(temp_dir, i, ".pdf")
         IN SplitLoop(pages, temp_dir, i + 1,
                      Append(page_files, output_filename),
                      Append(writes, [path |-> output_filename,
                                      content |-> <<pages[i]>>]))

\* the content of a file after a sequence of writes (each write truncates)
FileContent(writes, path) ==
    LET last == CHOOSE i \in 1..Len(writes) :
                    /\ writes[i].path = path
                    /\ \A j \in (i + 1)..Len(writes) : writes[j].path # path
    IN writes[last].content

\* _split_pdf_pages: read the bytes, settle the title, write the pages
SplitPdfPages(document, temp_dir) ==
    LET reader == document.data_bytes
        title == IF ~Truthy(document.title)
                 THEN Or(ExtractPdfTitle(reader), Some(document.name))
                 ELSE document.title
        r == SplitLoop(reader.pages, temp_dir, 1, <<>>, <<>>)
    IN IF ~reader.readable
       THEN [kind |-> "raise", cls |-> "PdfReadError", value |-> <<"invalid pdf">>,
             document |-> document, writes |-> <<>>]
       ELSE [kind |-> "return", value |-> r.page_files, temp_dir |-> temp_dir,
             document |-> [document EXCEPT !.title = title], writes |-> r.writes]

\* what the parsing service answers to one aload_data call: it raises, or
\* it returns a list of sections (possibly empty)
ParserFails == [ok |-> FALSE, docs |-> <<>>]
ParserReturns(docs) == [ok |-> TRUE, docs |-> docs]

CompletePath(temp_dir) ==
    [dir |-> temp_dir, stem |-> "complete", n |-> 0, ext |-> ".docx"]

\* open(...) or f.write(...) raising
WriteError == <<"[Errno 28] No space left on device">>

RECURSIVE SplitWordLoopStripping(_, _, _, _, _, _)
\* the loop writing each section stripped, and no file for a blank one
SplitWordLoopStripping(parsed_docs, temp_dir, fail_at, i, page_files, writes) ==
    IF i > Len(parsed_docs)
    THEN [ok |-> TRUE, page_files |-> page_files, writes |-> writes]
    ELSE IF Len(writes) + 1 = fail_at
    THEN [ok |-> FALSE, page_files |-> page_files, writes |-> writes]
    ELSE IF Strip(parsed_docs[i]) = <<>>
    THEN SplitWordLoopStripping(parsed_docs, temp_dir, fail_at, i + 1, page_files,
                                writes)
    ELSE LET output_filename == PagePath(temp_dir, i, ".docx")
         IN SplitWordLoopStripping(parsed_docs, temp_dir, fail_at, i + 1,
                                   Append(page_files, output_filename),
                                   Append(writes, [path |-> output_filename,
                                                   content |-> Strip(parsed_docs[i])]))

RECURSIVE SplitWordLoop(_, _, _, _, _, _)
\* for i, section in enumerate(parsed_docs, start=1): section.text is
\* written to page_<i>.docx; the write numbered fail_at (0: none) raises
\* and ends the loop.  [ok, page_files, writes]
SplitWordLoop(parsed_docs, temp_dir, fail_at, i, page_files, writes) ==
    IF i > Len(parsed_docs)
    THEN [ok |-> TRUE, page_files |-> page_files, writes |-> writes]
    ELSE IF Len(writes) + 1 = fail_at
    THEN [ok |-> FALSE, page_files |-> page_files, writes |-> writes]
    ELSE LET output_filename == PagePath(temp_dir, i, ".docx")
         IN SplitWordLoop(parsed_docs, temp_dir, fail_at, i + 1,
                          Append(page_files, output_filename),
                          Append(writes, [path |-> output_filename,
                                          content |-> parsed_docs[i]]))

\* _split_word_pages once complete.docx is written and the parsing service
\* has answered
SplitWordSections(document, temp_dir, answer, r, complete) ==
    IF ~answer.ok
    THEN [kind |-> "raise", cls |-> "ParserError", value |-> <<"parsing failed">>,
          document |-> document, writes |-> complete,
          parser_calls |-> <<CompletePath(temp_dir)>>]
    ELSE IF ~r.ok
    THEN [kind |-> "raise", cls |-> "OSError", value |-> WriteError,
          document |-> document, writes |-> r.writes,
          parser_calls |-> <<CompletePath(temp_dir)>>]
    ELSE [kind |-> "return", value |-> r.page_files, temp_dir |-> temp_dir,
          document |-> document, writes |-> r.writes,
          parser_calls |-> <<CompletePath(temp_dir)>>]

\* _split_word_pages: write the bytes to complete.docx, hand that file to
\* the parsing service, write each section it returns to a page file
SplitWordPages(document, temp_dir, answer, fail_at) ==
    IF fail_at = 1
    THEN [kind |-> "raise", cls |-> "OSError", value |-> WriteError,
          document |-> document, writes |-> <<>>, parser_calls |-> <<>>]
    ELSE SplitWordSections(
             document, temp_dir, answer,
             SplitWordLoop(answer.docs, temp_dir, fail_at, 1, <<>>,
                           <<[path |-> CompletePath(temp_dir),
                              content |-> document.data_bytes]>>),
             <<[path |-> CompletePath(temp_dir), content |-> document.data_bytes]>>)

\* the loop of _split_pdf_pages on a disk whose write numbered fail_at
\* (0: none) raises: the loop ends there with the error
FailingWrite(r, fail_at) ==
    IF r.kind = "return" /\ fail_at \in 1..Len(r.writes)
    THEN [kind |-> "raise", cls |-> "OSError", value |-> WriteError,
          document |-> r.document, writes |-> SubSeq(r.writes, 1, fail_at - 1)]
    ELSE r

\* tempfile.TemporaryDirectory(dir=self.temp_base_dir) raising
NoTempDir == "none"

\* except Exception as e: raise DocumentProcessingError("Document splitting
\* failed: " + str(e))
SplittingFailed(msg) ==
    [kind |-> "raise", cls |-> "DocumentProcessingError",
     value |-> <<"Document splitting failed: ">> \o msg, temp_dir |-> NoTempDir]

\* split_document_pages without its try: the error passes as it is
ReraisedUncaught(r) ==
    IF r.kind = "return"
    THEN [kind |-> "return", cls |-> "tuple", value |-> r.value,
          temp_dir |-> r.temp_dir]
    ELSE [kind |-> "raise", cls |-> r.cls, value |-> r.value, temp_dir |-> NoTempDir]

\* what split_document_pages makes of the outcome `r` of the splitter it
\* called: the (page files, temp_dir) tuple, or the wrapped error
Reraised(r) ==
    IF r.kind = "return"
    THEN [kind |-> "return", cls |-> "tuple", value |-> r.value,
          temp_dir |-> r.temp_dir]
    ELSE SplittingFailed(r.value)

\* split_document_pages: make the temporary directory, dispatch on doc_type
SplitDocumentPages(document, env) ==
    IF env.temp_dir = NoTempDir
    THEN SplittingFailed(<<"[Errno 2] No such file or directory">>)
    ELSE IF document.doc_type = "pdf"
    THEN Reraised(FailingWrite(SplitPdfPages(document, env.temp_dir), env.fail_at))
    ELSE IF document.doc_type = "docx"
    THEN Reraised(SplitWordPages(document, env.temp_dir, env.answer, env.fail_at))
    ELSE SplittingFailed(<<"Unsupported document type: ", document.doc_type>>)

RECURSIVE ParseLoopFailFast(_, _, _, _, _)
\* the loop without the inner try: the first failure leaves it
ParseLoopFailFast(file_paths, answers, i, documents, parser_calls) ==
    IF i > Len(file_paths)
    THEN [documents |-> documents, parser_calls |-> parser_calls]
    ELSE LET a == answers[i]
             called == Append(parser_calls, file_paths[i])
         IN IF ~a.ok
            THEN [documents |-> documents, parser_calls |-> called]
            ELSE ParseLoopFailFast(file_paths, answers, i + 1,
                                   documents \o a.docs, called)

RECURSIVE ParseLoop(_, _, _, _, _)
\* for file_path in file_paths: try: aload_data, extend documents by a
\* non-empty result; except Exception: continue.  [documents, parser_calls]
ParseLoop(file_paths, answers, i, documents, parser_calls) ==
    IF i > Len(file_paths)
    THEN [documents |-> documents, parser_calls |-> parser_calls]
    ELSE LET a == answers[i]
             called == Append(parser_calls, file_paths[i])
         IN IF a.ok /\ a.docs # <<>>
            THEN ParseLoop(file_paths, answers, i + 1, documents \o a.docs, called)
            ELSE ParseLoop(file_paths, answers, i + 1, documents, called)

\* parse_document without the check of its argument
ParseDocumentUnchecked(file_paths, answers) ==
    LET r == ParseLoop(file_paths, answers, 1, <<>>, <<>>)
    IN [kind |-> "return", cls |-> "list", value |-> r.documents,
        parser_calls |-> r.parser_calls]

\* parse_document raising itself when nothing was parsed
ParseDocumentRaisingOnEmpty(file_paths, answers) ==
    LET r == ParseLoop(file_paths, answers, 1, <<>>, <<>>)
    IN IF file_paths = <<>>
       THEN [kind |-> "raise", cls |-> "DocumentProcessingError",
             value |-> <<"File paths are required">>, parser_calls |-> <<>>]
       ELSE IF r.documents = <<>>
       THEN [kind |-> "raise", cls |-> "DocumentProcessingError",
             value |-> <<"Document parsing failed: ", "no documents">>,
             parser_calls |-> r.parser_calls]
       ELSE [kind |-> "return", cls |-> "list", value |-> r.documents,
             parser_calls |-> r.parser_calls]

\* parse_document: an empty list of paths raises before the loop
ParseDocument(file_paths, answers) ==
    LET r == ParseLoop(file_paths, answers, 1, <<>>, <<>>)
    IN IF file_paths = <<>>
       THEN [kind |-> "raise", cls |-> "DocumentProcessingError",
             value |-> <<"File paths are required">>, parser_calls |-> <<>>]
       ELSE [kind |-> "return", cls |-> "list", value |-> r.documents,
             parser_calls |-> r.parser_calls]

(***************************************************************************)
(* src/streamlit_app.py                                                    *)
(*                                                                         *)
(* Streamlit runs the whole script (StreamlitApp(), then main()) once per  *)
(* user interaction: the widget the user touched reports it in that run    *)
(* (chat_input returns the text, a clicked button returns True), all the   *)
(* other widgets report their kept value, both tabs and the sidebar are    *)
(* rendered, and st.session_state is what survives from run to run.  A     *)
(* button can only be clicked if the previous run rendered it; a widget    *)
(* that a run does not render loses its value.                             *)
(*                                                                         *)
(* An uploaded file is its name (stem and extension) and its bytes, which  *)
(* stand for the sections the parsing service extracts from them when it   *)
(* answers.                                                                *)
(***************************************************************************)
\* sep.join(parts)
RECURSIVE Join(_, _)
Join(sep, parts) ==
    IF parts = <<>> THEN <<>>
    ELSE IF Len(parts) = 1 THEN parts[1]
    ELSE parts[1] \o sep \o Join(sep, Tail(parts))

RECURSIVE StrippedAll(_)
\* the sections stripped, the blank ones kept
StrippedAll(docs) ==
    IF docs = <<>> THEN <<>>
    ELSE <<Strip(Head(docs))>> \o StrippedAll(Tail(docs))

\* [f(x) for x in xs if keep(x)] for sections: the stripped non-blank ones
RECURSIVE StrippedNonBlank(_)
StrippedNonBlank(docs) ==
    IF docs = <<>> THEN <<>>
    ELSE LET content == Head(docs)
         IN IF content # <<>> /\ Strip(content) # <<>>
            THEN <<Strip(content)>> \o StrippedNonBlank(Tail(docs))
            ELSE StrippedNonBlank(Tail(docs))

NoCall == [kind |-> "none"]
NoFile == [present |-> FALSE, name |-> <<>>, data_bytes |-> <<>>]
File(name, sections) == [present |-> TRUE, name |-> name, data_bytes |-> sections]

\* file_name.lower().endswith('.pdf')
EndsWithPdf(file_name) == file_name[Len(file_name)] \in {".pdf", ".PDF"}

ProcessedDocument(content, file_name, num_pages, doc_type) ==
    [content |-> content, file_name |-> file_name, num_pages |-> num_pages,
     doc_type |-> doc_type]

\* what happens around one process_document call: whether the temporary
\* file can be written, whether the parsing service answers, whether the
\* temporary file can be deleted
ParseEnvs == [write_ok : BOOLEAN, parser_ok : BOOLEAN, unlink_ok : BOOLEAN]

\* except Exception as e: raise DocumentProcessingError("Failed to process
\* document: " + str(e))
ProcessingFailed(msg, parser_calls, temp_file_left) ==
    [kind |-> "raise", cls |-> "DocumentProcessingError",
     value |-> <<"Failed to process document: ">> \o msg,
     parser_calls |-> parser_calls, temp_file_left |-> temp_file_left]

\* process_document with os.unlink after the return instead of in a
\* finally: the paths that raise skip it
ProcessedNoFinally(parsed, file_name, left) ==
    IF parsed.kind = "raise"
    THEN ProcessingFailed(parsed.value, parsed.parser_calls, TRUE)
    ELSE IF parsed.value = <<>>
    THEN ProcessingFailed(<<"No content extracted from document">>,
                          parsed.parser_calls, TRUE)
    ELSE IF StrippedNonBlank(parsed.value) = <<>>
    THEN ProcessingFailed(<<"No valid content found in parsed documents">>,
                          parsed.parser_calls, TRUE)
    ELSE [kind |-> "return", cls |-> "ProcessedDocument",
          value |-> ProcessedDocument(
                        Join(<<"\n", "\n">>, StrippedNonBlank(parsed.value)),
                        file_name, Len(StrippedNonBlank(parsed.value)),
                        IF EndsWithPdf(file_name) THEN "pdf" ELSE "docx"),
          parser_calls |-> parsed.parser_calls, temp_file_left |-> left]

\* process_document once parse_document has answered `parsed`
Processed(parsed, file_name, left) ==
    IF parsed.kind = "raise"
    THEN ProcessingFailed(parsed.value, parsed.parser_calls, left)
    ELSE IF parsed.value = <<>>
    THEN ProcessingFailed(<<"No content extracted from document">>,
                          parsed.parser_calls, left)
    ELSE IF StrippedNonBlank(parsed.value) = <<>>
    THEN ProcessingFailed(<<"No valid content found in parsed documents">>,
                          parsed.parser_calls, left)
    ELSE [kind |-> "return", cls |-> "ProcessedDocument",
          value |-> ProcessedDocument(
                        Join(<<"\n", "\n">>, StrippedNonBlank(parsed.value)),
                        file_name, Len(StrippedNonBlank(parsed.value)),
                        IF EndsWithPdf(file_name) THEN "pdf" ELSE "docx"),
          parser_calls |-> parsed.parser_calls, temp_file_left |-> left]

TempFilePath(file_name) ==
    [tmp |-> "NamedTemporaryFile", suffix |-> file_name[Len(file_name)]]

\* DocumentProcessingService.process_document: write the temporary file
\* (made with delete=False: a failing write leaves it, the inner try is
\* not entered), parse it, join the stripped non-blank sections; finally:
\* delete the file
ProcessDocument(file_content, file_name, env) ==
    IF ~env.write_ok
    THEN ProcessingFailed(<<"[Errno 28] No space left on device">>, <<>>, TRUE)
    ELSE Processed(ParseDocument(<<TempFilePath(file_name)>>,
                                 <<IF env.parser_ok THEN ParserReturns(file_content)
                                   ELSE ParserFails>>),
                   file_name, ~env.unlink_ok)

\* process_uploaded_file recording the document before knowing the outcome
UploadedKeepingPartial(r, docs) ==
    IF r.kind = "return"
    THEN [contract_text |-> Some(r.value.content),
          processed_documents |-> Append(docs, r.value), errors |-> <<>>,
          parse |-> r]
    ELSE [contract_text |-> None_,
          processed_documents |->
              Append(docs, ProcessedDocument(<<>>, <<>>, 0, "docx")),
          errors |-> <<<<"Failed to process document: ">> \o r.value>>,
          parse |-> r]

\* process_uploaded_file once process_document has answered `r`
Uploaded(r, docs) ==
    IF r.kind = "return"
    THEN [contract_text |-> Some(r.value.content),
          processed_documents |-> Append(docs, r.value), errors |-> <<>>,
          parse |-> r]
    ELSE [contract_text |-> None_, processed_documents |-> docs,
          errors |-> <<<<"Failed to process document: ">> \o r.value>>,
          parse |-> r]

\* StreamlitApp.process_uploaded_file: [contract_text, processed_documents,
\* errors, parse]
ProcessUploadedFile(file, docs, env) ==
    IF ~file.present
    THEN [contract_text |-> None_, processed_documents |-> docs, errors |-> <<>>,
          parse |-> NoCall]
    ELSE Uploaded(ProcessDocument(file.data_bytes, file.name, env), docs)

\* StreamlitApp.initialize_assistant in the environment `environ`: the
\* key is read from GROQ_API_KEY and the provider is LLMProvider.GROQ; no
\* other variable is read
initialize_assistant(environ) ==
    create_llm("groq", environ.GROQ_API_KEY, environ.rejects)

\* StreamlitApp.initialize_assistant, with GROQ_API_KEY configured
Assistant == create_llm("groq", "key", TRUE).obj

\* "\n".join(f"{msg['role']}: {msg['content']}" for msg in messages)
ChatHistory(msgs) ==
    Join(<<"\n">>, [i \in 1..Len(msgs) |-> <<msgs[i].role, ": ">> \o msgs[i].content])

\* an error handler that resets the conversation
AnsweredOrReset(msgs, chat) ==
    [messages |-> IF chat.kind = "return"
                  THEN Append(msgs, [role |-> "assistant", content |-> chat.value])
                  ELSE <<>>,
     chat |-> chat]

\* the chat once the assistant has answered `chat`: the response is
\* appended, an error is only shown
Answered(msgs, chat) ==
    [messages |-> IF chat.kind = "return"
                  THEN Append(msgs, [role |-> "assistant", content |-> chat.value])
                  ELSE msgs,
     chat |-> chat]

\* the assistant asked with the history as it was before the query
AskedWithEarlierHistory(msgs, prompt, outcomes) ==
    Answered(msgs, LegalAssistant_get_response(
                       Assistant, prompt,
                       ChatHistory(SubSeq(msgs, 1, Len(msgs) - 1)), outcomes))

\* if prompt: the user message is appended, then the assistant is asked
\* with the history that holds it
Asked(msgs, prompt, outcomes) ==
    Answered(msgs, LegalAssistant_get_response(Assistant, prompt, ChatHistory(msgs),
                                               outcomes))

\* render_chat_assistant asking the assistant without recording the user's
\* message
RenderChatAssistantNoUser(trigger, prompt, outcomes) ==
    IF trigger = "chat_input"
    THEN Asked(messages, prompt, outcomes)
    ELSE [messages |-> messages, chat |-> NoCall]

\* render_chat_assistant: [messages, chat]
RenderChatAssistant(trigger, prompt, outcomes) ==
    IF trigger = "chat_input"
    THEN Asked(Append(messages, [role |-> "user", content |-> prompt]), prompt,
               outcomes)
    ELSE [messages |-> messages, chat |-> NoCall]

\* the lower half of render_contract_analyzer: the Analyze Contract button
\* is rendered for a truthy contract_text, and _analyze_contract_text runs
\* when it was clicked
Analyzed(trigger, contract_text, up, outcomes) ==
    [up |-> up, contract_text |-> contract_text,
     analyze_rendered |-> Truthy(contract_text),
     analysis |-> IF Truthy(contract_text) /\ trigger = "analyze_button"
                  THEN LegalAssistant_analyze_contract(Assistant, contract_text.s,
                                                       outcomes)
                  ELSE NoCall]

\* the upper half once process_uploaded_file has answered `up`
Read(trigger, method, text, up, outcomes) ==
    Analyzed(trigger,
             IF method = "Upload Document" THEN up.contract_text ELSE Some(text),
             up, outcomes)

\* whether a script run with these widget values calls process_document
WillParse(method, file) == method = "Upload Document" /\ file.present

\* render_contract_analyzer: [up, contract_text, analyze_rendered, analysis]
RenderContractAnalyzer(trigger, method, file, text, env, outcomes) ==
    Read(trigger, method, text,
         ProcessUploadedFile(IF method = "Upload Document" THEN file ELSE NoFile,
                             processed_documents, env),
         outcomes)

\* a sidebar whose Confirm Clear button acts on its own click alone
RenderSidebarUnnested(trigger, msgs) ==
    LET clear_rendered == msgs # <<>>
        clear_clicked == clear_rendered /\ trigger = "clear_chat"
        confirm_rendered == clear_clicked
        confirm_clicked == trigger = "confirm_clear"
    IN [messages |-> IF confirm_clicked THEN <<>> ELSE msgs,
        clear |-> clear_rendered, confirm |-> confirm_rendered]

\* render_sidebar: Clear Chat is rendered when there are messages, Confirm
\* Clear inside its if, and the messages are cleared inside the if of both
RenderSidebar(trigger, msgs) ==
    LET clear_rendered == msgs # <<>>
        clear_clicked == clear_rendered /\ trigger = "clear_chat"
        confirm_rendered == clear_clicked
        confirm_clicked == confirm_rendered /\ trigger = "confirm_clear"
    IN [messages |-> IF confirm_clicked THEN <<>> ELSE msgs,
        clear |-> clear_rendered, confirm |-> confirm_rendered]

\* what a script run leaves, given what its three parts did
Rendered(trigger, method, file, text, chat, analyzer, sidebar) ==
    /\ messages' = sidebar.messages
    /\ processed_documents' = analyzer.up.processed_documents
    /\ input_method' = method
    /\ uploaded_file' = IF method = "Upload Document" THEN file ELSE NoFile
    /\ text_input' = IF method = "Paste Text" THEN text ELSE <<>>
    /\ buttons' = [analyze |-> analyzer.analyze_rendered, clear |-> sidebar.clear,
                   confirm |-> sidebar.confirm]
    /\ upload_parse_calls' =
         IF analyzer.up.parse.kind = "none" THEN 0
         ELSE (IF trigger = "file_uploader" THEN 0 ELSE upload_parse_calls)
              + Len(analyzer.up.parse.parser_calls)
    /\ leaked_temp_files' =
         IF analyzer.up.parse.kind # "none" /\ analyzer.up.parse.temp_file_left
         THEN leaked_temp_files + 1 ELSE leaked_temp_files
    /\ run' = [trigger |-> trigger, parse |-> analyzer.up.parse,
               contract_text |-> analyzer.contract_text, errors |-> analyzer.up.errors,
               chat |-> chat.chat, analysis |-> analyzer.analysis]
    /\ UNCHANGED <<opsVars, cleanupVars>>

\* main() after the chat tab has been rendered
Main(trigger, method, file, text, env, outcomes, chat) ==
    Rendered(trigger, method, file, text, chat,
             RenderContractAnalyzer(trigger, method, file, text, env, outcomes),
             RenderSidebar(trigger, chat.messages))

\* One script run.  `trigger` is the widget the user touched and `prompt`
\* the text of the chat input; method, file and text are the values the
\* contract analyzer's widgets have in this run.
ScriptRun(trigger, prompt, method, file, text, env, outcomes) ==
    /\ WillParse(method, file) =>
         /\ Len(processed_documents) < MaxDocs
         /\ (IF trigger = "file_uploader" THEN 0 ELSE upload_parse_calls) < MaxParseCalls
         /\ ~env.write_ok => (env.parser_ok /\ env.unlink_ok)
         /\ (~env.write_ok \/ ~env.unlink_ok) => leaked_temp_files < MaxLeaked
    /\ Main(trigger, method, file, text, env, outcomes,
            RenderChatAssistant(trigger, prompt, outcomes))

\* the files a user uploads
UploadFiles ==
    {File(<<"lease", ".pdf">>, <<<<"a">>, <<" ", "b", "\n">>, <<"c">>>>),
     File(<<"notes", ".docx">>, <<<<"d">>, <<" ">>>>),
     File(<<"scan", ".pdf">>, <<<<" ">>>>),
     File(<<"empty", ".docx">>, <<>>)}
ChatPrompts == {<<"q">>}
PastedTexts == {<<"z">>, <<" ">>}
\* the outcome sequences that differ in what a call reads of them: after
\* the attempt that ends a call, the rest is never read
AppOutcomeSeqs ==
    {os \in OutcomeSeqs :
        \A i \in 1..(Len(os) - 1) : (os[i].ok \/ ~os[i].retryable) => os[i + 1] = os[i]}
NoOutcomes == [i \in 1..MaxOutcomes |-> Fail(<<"unused">>, FALSE)]
\* the surroundings of a run that does not parse are not read
QuietEnv == [write_ok |-> TRUE, parser_ok |-> TRUE, unlink_ok |-> TRUE]
RunEnvs(method, file) == IF WillParse(method, file) THEN ParseEnvs ELSE {QuietEnv}

\* the user sends a chat message
ChatInput ==
    /\ Len(messages) + 2 <= MaxMessages
    /\ \E prompt \in ChatPrompts, os \in AppOutcomeSeqs :
       \E env \in RunEnvs(input_method, uploaded_file) :
           ScriptRun("chat_input", prompt, input_method, uploaded_file, text_input,
                     env, os)

\* the user puts a file into the uploader
UploadFile ==
    /\ input_method = "Upload Document"
    /\ \E file \in UploadFiles, env \in ParseEnvs :
           ScriptRun("file_uploader", <<>>, input_method, file, text_input, env,
                     NoOutcomes)

\* the user takes the file out of the uploader
RemoveFile ==
    /\ uploaded_file.present
    /\ ScriptRun("file_uploader", <<>>, input_method, NoFile, text_input, QuietEnv,
                 NoOutcomes)

\* the user switches the input method
SelectInputMethod ==
    \E method \in {"Upload Document", "Paste Text"} \ {input_method} :
        ScriptRun("input_method", <<>>, method, NoFile, <<>>, QuietEnv, NoOutcomes)

\* the user types into the text area
EnterText ==
    /\ input_method = "Paste Text"
    /\ \E text \in (PastedTexts \cup {<<>>}) \ {text_input} :
           ScriptRun("text_input", <<>>, input_method, uploaded_file, text, QuietEnv,
                     NoOutcomes)

\* the user clicks Analyze Contract
ClickAnalyze ==
    /\ buttons.analyze
    /\ \E os \in AppOutcomeSeqs :
       \E env \in RunEnvs(input_method, uploaded_file) :
           ScriptRun("analyze_button", <<>>, input_method, uploaded_file, text_input,
                     env, os)

\* the user clicks Clear Chat
ClickClearChat ==
    /\ buttons.clear
    /\ \E env \in RunEnvs(input_method, uploaded_file) :
           ScriptRun("clear_chat", <<>>, input_method, uploaded_file, text_input, env,
                     NoOutcomes)

\* the user clicks Confirm Clear
ClickConfirmClear ==
    /\ buttons.confirm
    /\ \E env \in RunEnvs(input_method, uploaded_file) :
           ScriptRun("confirm_clear", <<>>, input_method, uploaded_file, text_input,
                     env, NoOutcomes)

\* the session before the first interaction: the first script run has
\* rendered the empty chat and the empty uploader
AppIdle ==
    /\ messages = <<>>
    /\ processed_documents = <<>>
    /\ input_method = "Upload Document"
    /\ uploaded_file = NoFile
    /\ text_input = <<>>
    /\ buttons = [analyze |-> FALSE, clear |-> FALSE, confirm |-> FALSE]
    /\ upload_parse_calls = 0
    /\ leaked_temp_files = 0
    /\ run = [trigger |-> "none", parse |-> NoCall, contract_text |-> None_,
              errors |-> <<>>, chat |-> NoCall, analysis |-> NoCall]

(***************************************************************************)
(* The temp_files directory: DocumentProcessor.__init__ and                *)
(* cleanup_old_files.                                                      *)
(*                                                                         *)
(* An entry's name is the "%Y-%m-%d" text of a day ([is_date |-> TRUE,     *)
(* day]) or some other text; datetime.strptime accepts the first and       *)
(* raises ValueError on the second.  A datetime is [day, tod].             *)
(***************************************************************************)
DefaultDaysToKeep == 7

DateName(day) == [is_date |-> TRUE, day |-> day, text |-> "%Y-%m-%d"]
OtherName(text) == [is_date |-> FALSE, day |-> 0, text |-> text]
Entry(name, is_dir) == [name |-> name, is_dir |-> is_dir]

\* datetime compared as an instant: midnight of a day is tick 0 of it
Instant(dt) == dt.day * TicksPerDay + dt.tod

\* what the directory holds besides the day-stamped directories
FixedEntries ==
    {Entry(OtherName(".gitkeep"), FALSE),
     Entry(OtherName("archive"), TRUE),
     Entry(DateName(0), FALSE)}

CleanupIdle ==
    /\ temp_root = FixedEntries
    /\ now = [day |-> 0, tod |-> 0]

\* the entries cleanup_old_files removes: directories whose name parses as
\* a date and whose date, at midnight, is before now - days_to_keep days
Expired(listing, at, days_to_keep) ==
    LET cutoff_date == Instant(at) - days_to_keep * TicksPerDay
    IN {item \in listing :
          /\ item.is_dir /\ item.name.text # ".gitkeep"
          /\ item.name.is_date
          /\ Instant([day |-> item.name.day, tod |-> 0]) < cutoff_date}

\* the api_key argument and the LLAMA_CLOUD_API_KEY variable: absent,
\* empty or set
KeyArgs == {None_, Some(<<>>), Some(<<"llx-key">>)}

\* os.makedirs(temp_base_dir, exist_ok=True): today's directory exists
\* afterwards; a regular file of that name makes it raise
MakeDirs(api_key, listing, today) ==
    IF Entry(DateName(today), FALSE) \in listing
    THEN [result |-> [kind |-> "raise", cls |-> "FileExistsError",
                      value |-> <<"[Errno 17] File exists">>,
                      parser_created |-> TRUE],
          temp_root |-> listing]
    ELSE [result |-> [kind |-> "object", parser_created |-> TRUE,
                      obj |-> [api_key |-> api_key, parser |-> "LlamaParse",
                               temp_base_dir |-> DateName(today)]],
          temp_root |-> listing \cup {Entry(DateName(today), TRUE)}]

KeyNotFound(listing, parser_created) ==
    [result |-> [kind |-> "raise", cls |-> "DocumentProcessingError",
                 value |-> <<"LLAMA CLOUD API key not found. Please set LLAMA_CLOUD_API_KEY environment variable">>,
                 parser_created |-> parser_created],
     temp_root |-> listing]

\* a constructor that sets up the parser and the directory first and
\* looks at the key last
DocumentProcessor_init_late_check(api_key, env_key, listing, today) ==
    IF MakeDirs(Or(api_key, env_key), listing, today).result.kind = "raise"
    THEN MakeDirs(Or(api_key, env_key), listing, today)
    ELSE IF ~Truthy(Or(api_key, env_key))
    THEN KeyNotFound(MakeDirs(Or(api_key, env_key), listing, today).temp_root, TRUE)
    ELSE MakeDirs(Or(api_key, env_key), listing, today)

\* DocumentProcessor.__init__ up to os.makedirs: the key (argument or
\* environment) is checked first, then LlamaParse is built and today's
\* directory made.  [result, temp_root]
DocumentProcessor_init(api_key, env_key, listing, today) ==
    IF ~Truthy(Or(api_key, env_key))
    THEN KeyNotFound(listing, FALSE)
    ELSE MakeDirs(Or(api_key, env_key), listing, today)

\* what a constructor call leaves
Constructed(api_key, env_key, r) ==
    /\ \/ r.temp_root = temp_root
       \/ Cardinality({e \in temp_root : e.is_dir /\ e.name.is_date}) < MaxDirs
    /\ temp_root' = r.temp_root
    /\ call' = [op |-> "DocumentProcessor.__init__", api_key |-> api_key,
                env_key |-> env_key, listing |-> temp_root, at |-> now]
    /\ result' = r.result
    /\ UNCHANGED <<now, appVars>>

\* DocumentProcessor(api_key) in an environment with or without the key
ProcessorInit ==
    \E api_key \in KeyArgs, env_key \in KeyArgs :
        Constructed(api_key, env_key,
                    DocumentProcessor_init(api_key, env_key, temp_root, now.day))

\* cleanup_old_files(days_to_keep), and cleanup_old_files() with the default
CleanupOldFiles ==
    \E days_to_keep \in (1..MaxKeep) \cup {DefaultDaysToKeep} :
        /\ temp_root' = temp_root \ Expired(temp_root, now, days_to_keep)
        /\ call' = [op |-> "cleanup_old_files", days_to_keep |-> days_to_keep,
                    listing |-> temp_root, at |-> now]
        /\ result' = Return(Cardinality(Expired(temp_root, now, days_to_keep)))
        /\ UNCHANGED <<now, appVars>>

\* time passes
Tick ==
    /\ Instant(now) < MaxDay * TicksPerDay + TicksPerDay - 1
    /\ now' = IF now.tod + 1 < TicksPerDay
              THEN [now EXCEPT !.tod = now.tod + 1]
              ELSE [day |-> now.day + 1, tod |-> 0]
    /\ UNCHANGED <<temp_root, opsVars, appVars>>

(***************************************************************************)
(* The component operations, each applied to inputs from bounded sets: a   *)
(* behaviour of SpecOps starts with a call and its inputs, and its one     *)
(* step runs the operation.                                                *)
(***************************************************************************)
PromptAlphabet == {"x", "}", "{law_text}"}
Texts == TextsUpTo(PromptAlphabet, MaxTextLen)
Queries == {<<"q">>, <<"{law_text}">>}
Histories == {<<>>, <<"user: q">>}

CreateLlmCalls ==
    [op : {"create_llm"}, provider : LLMProvider, api_key : ApiKeys, rejects : BOOLEAN]
AdapterCalls ==
    [op : {"adapter.get_response"}, llm : Adapters, prompt : Queries,
     outcomes : OutcomeSeqs]
FacadeQueryCalls ==
    [op : {"facade.get_response"}, llm : Adapters, user_query : Queries,
     chat_history : Histories, outcomes : OutcomeSeqs]
FacadeAnalyzeCalls ==
    [op : {"facade.analyze_contract"}, llm : Adapters, contract_text : Queries,
     outcomes : OutcomeSeqs]
GeneratePromptCalls ==
    [op : {"generate_prompt"}, user_query : Texts, law_text : Texts,
     chat_history : Texts]
GenerateContractPromptCalls ==
    [op : {"generate_contract_analysis_prompt"}, contract_text : Texts,
     law_text : Texts]

PageContents == {"P", "Q"}
TitleTexts == TextsUpTo({" ", "T"}, MaxTitleLen)
Metadatas ==
    [kind : {"raises", "none"}, title : {None_}]
    \cup [kind : {"dict"}, title : {None_} \cup {Some(t) : t \in TitleTexts}]
Readers ==
    [readable : {TRUE}, metadata : Metadatas,
     pages : UNION {[1..n -> PageContents] : n \in 0..MaxPages}]
    \cup {[readable |-> FALSE, metadata |-> [kind |-> "none", title |-> None_],
           pages |-> <<>>]}
DocumentFiles ==
    [data_bytes : Readers, name : {<<"lease.pdf">>}, doc_type : {"pdf"},
     title : {None_, Some(<<>>), Some(<<"Given">>)}]
TempDirs == {"tmp_a1", "tmp_b2"}
SplitPdfCalls == [op : {"_split_pdf_pages"}, document : DocumentFiles, temp_dir : TempDirs]

PathNames == {"a.pdf", "b.docx"}
SectionLists == {<<>>, <<<<"s">>>>, <<<<" ", "t">>, <<"u">>>>}
ParserAnswers == {ParserFails} \cup {ParserReturns(d) : d \in SectionLists}
ParseCalls ==
    UNION {[op : {"parse_document"}, file_paths : [1..n -> PathNames],
            answers : [1..n -> ParserAnswers]] : n \in 0..MaxPaths}

WordFiles ==
    [data_bytes : {<<"PK", "word/document.xml">>}, name : {<<"notes.docx">>},
     doc_type : {"docx"}, title : {None_}]
\* a DocumentFile whose doc_type is no member of DocumentType
OtherFiles ==
    [data_bytes : {<<"plain text">>}, name : {<<"notes.txt">>}, doc_type : {"txt"},
     title : {None_}]
WordAnswers ==
    ParserAnswers \cup {ParserReturns(<<<<"s">>, <<" ">>, <<"u", "\n">>>>)}
SplitWordCalls ==
    [op : {"_split_word_pages"}, document : WordFiles, temp_dir : TempDirs,
     answer : WordAnswers, fail_at : 0..MaxPages]
\* the parsing service is not asked about a PDF
SplitDocumentCalls ==
    [op : {"split_document_pages"},
     document : {d \in DocumentFiles : d.title = None_},
     env : [temp_dir : TempDirs \cup {NoTempDir}, fail_at : 0..MaxPages,
            answer : {ParserFails}]]
    \cup [op : {"split_document_pages"},
          document : WordFiles \cup OtherFiles,
          env : [temp_dir : TempDirs \cup {NoTempDir}, fail_at : 0..MaxPages,
                 answer : WordAnswers]]

RunSplitWord ==
    /\ call.op = "_split_word_pages" /\ result.kind = "pending"
    /\ result' = SplitWordPages(call.document, call.temp_dir, call.answer,
                                call.fail_at)
    /\ UNCHANGED <<call, cleanupVars, appVars>>

RunSplitDocument ==
    /\ call.op = "split_document_pages" /\ result.kind = "pending"
    /\ result' = SplitDocumentPages(call.document, call.env)
    /\ UNCHANGED <<call, cleanupVars, appVars>>

\* the process environment at startup: a variable naming the provider
\* (unset, or one of the provider values) and the Groq key
Environs ==
    [provider_variable : LLMProvider \cup {NoKey}, GROQ_API_KEY : ApiKeys,
     rejects : BOOLEAN]
InitializeAssistantCalls == [op : {"initialize_assistant"}, environ : Environs]

RunInitializeAssistant ==
    /\ call.op = "initialize_assistant" /\ result.kind = "pending"
    /\ result' = initialize_assistant(call.environ)
    /\ UNCHANGED <<call, cleanupVars, appVars>>

ProcessDocumentCalls ==
    [op : {"process_document"}, file : UploadFiles, env : ParseEnvs]

RunProcessDocument ==
    /\ call.op = "process_document" /\ result.kind = "pending"
    /\ result' = ProcessDocument(call.file.data_bytes, call.file.name, call.env)
    /\ UNCHANGED <<call, cleanupVars, appVars>>

RunSplitPdf ==
    /\ call.op = "_split_pdf_pages" /\ result.kind = "pending"
    /\ result' = SplitPdfPages(call.document, call.temp_dir)
    /\ UNCHANGED <<call, cleanupVars, appVars>>

RunParseDocument ==
    /\ call.op = "parse_document" /\ result.kind = "pending"
    /\ result' = ParseDocument(call.file_paths, call.answers)
    /\ UNCHANGED <<call, cleanupVars, appVars>>

RunCreateLlm ==
    /\ call.op = "create_llm" /\ result.kind = "pending"
    /\ result' = create_llm(call.provider, call.api_key, call.rejects)
    /\ UNCHANGED <<call, cleanupVars, appVars>>

RunAdapter ==
    /\ call.op = "adapter.get_response" /\ result.kind = "pending"
    /\ result' = BaseLLM_get_response(call.llm, call.prompt, call.outcomes)
    /\ UNCHANGED <<call, cleanupVars, appVars>>

RunFacadeQuery ==
    /\ call.op = "facade.get_response" /\ result.kind = "pending"
    /\ result' = LegalAssistant_get_response(call.llm, call.user_query,
                                             call.chat_history, call.outcomes)
    /\ UNCHANGED <<call, cleanupVars, appVars>>

RunFacadeAnalyze ==
    /\ call.op = "facade.analyze_contract" /\ result.kind = "pending"
    /\ result' = LegalAssistant_analyze_contract(call.llm, call.contract_text,
                                                 call.outcomes)
    /\ UNCHANGED <<call, cleanupVars, appVars>>

RunGeneratePrompt ==
    /\ call.op = "generate_prompt" /\ result.kind = "pending"
    /\ result' = Return(generate_prompt(call.user_query, call.law_text,
                                        call.chat_history))
    /\ UNCHANGED <<call, cleanupVars, appVars>>

RunGenerateContractPrompt ==
    /\ call.op = "generate_contract_analysis_prompt" /\ result.kind = "pending"
    /\ result' = Return(generate_contract_analysis_prompt(call.contract_text,
                                                          call.law_text))
    /\ UNCHANGED <<call, cleanupVars, appVars>>

(***************************************************************************)
(* The specifications: the Streamlit session (Spec), the temp_files        *)
(* directory over time (SpecCleanup) and the component operations applied  *)
(* to bounded inputs (SpecOps).                                            *)
(***************************************************************************)
Init ==
    /\ call = [op |-> "none"]
    /\ result = Pending
    /\ CleanupIdle
    /\ AppIdle

Next ==
    \/ ChatInput
    \/ UploadFile
    \/ RemoveFile
    \/ SelectInputMethod
    \/ EnterText
    \/ ClickAnalyze
    \/ ClickClearChat
    \/ ClickConfirmClear

Spec == Init /\ [][Next]_vars

InitCleanup ==
    /\ call = [op |-> "none"]
    /\ result = Pending
    /\ CleanupIdle
    /\ AppIdle

NextCleanup ==
    \/ ProcessorInit
    \/ CleanupOldFiles
    \/ Tick

SpecCleanup == InitCleanup /\ [][NextCleanup]_vars

InitOps ==
    /\ \/ call \in CreateLlmCalls
       \/ call \in AdapterCalls
       \/ call \in FacadeQueryCalls
       \/ call \in FacadeAnalyzeCalls
       \/ call \in GeneratePromptCalls
       \/ call \in GenerateContractPromptCalls
       \/ call \in SplitPdfCalls
       \/ call \in ParseCalls
       \/ call \in ProcessDocumentCalls
       \/ call \in SplitWordCalls
       \/ call \in SplitDocumentCalls
       \/ call \in InitializeAssistantCalls
    /\ result = Pending
    /\ CleanupIdle
    /\ AppIdle

NextOps ==
    \/ RunCreateLlm
    \/ RunAdapter
    \/ RunFacadeQuery
    \/ RunFacadeAnalyze
    \/ RunGeneratePrompt
    \/ RunGenerateContractPrompt
    \/ RunSplitPdf
    \/ RunParseDocument
    \/ RunProcessDocument
    \/ RunSplitWord
    \/ RunSplitDocument
    \/ RunInitializeAssistant

SpecOps == InitOps /\ [][NextOps]_vars

(***************************************************************************)
(* Properties.                                                             *)
(***************************************************************************)
Done == result.kind # "pending"

ProviderPrefix(cls) ==
    CASE cls = "OpenAILLM" -> "OpenAI Error: "
      [] cls = "GroqLLM" -> "Groq Error: "
      [] cls = "AnthropicLLM" -> "Anthropic Error: "
      [] cls = "GeminiLLM" -> "Gemini Error: "

\* the attempt that ended the hosted call: all attempts before it failed
EndedAt(outcomes, n) == \A i \in 1..(n - 1) : ~outcomes[i].ok

\* C1: an adapter's get_response has two outcomes: it returns the text of
\* the hosted call, or, when the hosted call fails, it raises an Exception
\* whose message is the adapter's own prefix followed by the error's text;
\* a failure never gives a return value or an unprefixed error.
C1_AdapterReturnsOrRaisesPrefixed ==
    (call.op = "adapter.get_response" /\ Done) =>
        LET n == Len(result.sent)
            o == call.outcomes[n]
        IN /\ n >= 1
           /\ EndedAt(call.outcomes, n)
           /\ result.kind \in {"return", "raise"}
           /\ o.ok => (result.kind = "return" /\ result.value = o.body)
           /\ ~o.ok => /\ result.kind = "raise"
                       /\ result.cls = "Exception"
                       /\ Head(result.value) = ProviderPrefix(call.llm.cls)
                       /\ Tail(result.value) = o.body

C1_Witness ==
    /\ call.op = "adapter.get_response" /\ Done
    /\ call.llm.cls = "GroqLLM"
    /\ ~call.outcomes[1].ok
    /\ result.kind = "raise"

IsRequest == call.op \in {"facade.get_response", "facade.analyze_contract"}

C3_NoKeyFailsAtConstruction ==
    (call.op = "create_llm" /\ Done /\ call.api_key = NoKey /\ call.rejects) =>
        result.kind = "raise"

\* C7: prompt construction is a pure substitution: the result is the
\* template with each slot replaced by its input, verbatim, whatever
\* braces or slot names the inputs contain.
C7_PromptIsPureSubstitution ==
    /\ (call.op = "generate_prompt" /\ Done) =>
          result.value =
              <<LEGAL_ASSISTANT_PROMPT[1]>> \o call.chat_history
              \o <<LEGAL_ASSISTANT_PROMPT[3]>> \o call.user_query
              \o <<LEGAL_ASSISTANT_PROMPT[5]>> \o call.law_text
              \o <<LEGAL_ASSISTANT_PROMPT[7]>>
    /\ (call.op = "generate_contract_analysis_prompt" /\ Done) =>
          result.value =
              <<RENTAL_CONTRACT_ANALYZER_PROMPT[1]>> \o call.law_text
              \o <<RENTAL_CONTRACT_ANALYZER_PROMPT[3]>> \o call.contract_text
              \o <<RENTAL_CONTRACT_ANALYZER_PROMPT[5]>>

C7_Witness ==
    /\ call.op = "generate_prompt" /\ Done
    /\ call.chat_history = <<"{law_text}", "}">>
    /\ call.law_text = <<"x">>
    /\ result.value[2] = "{law_text}"

\* C4: splitting a readable PDF of N pages returns N paths, page_1.pdf to
\* page_N.pdf of the call's temporary directory, in page order; exactly
\* these files are written, and the i-th holds the i-th page alone.
C4_SplitGivesOneFilePerPage ==
    (call.op = "_split_pdf_pages" /\ Done /\ call.document.data_bytes.readable) =>
        LET pages == call.document.data_bytes.pages
            N == Len(pages)
        IN /\ result.kind = "return"
           /\ Len(result.value) = N
           /\ \A i \in 1..N :
                 /\ result.value[i] = PagePath(call.temp_dir, i, ".pdf")
                 /\ FileContent(result.writes, result.value[i]) = <<pages[i]>>
           /\ {result.writes[j].path : j \in 1..Len(result.writes)}
                 = {result.value[i] : i \in 1..N}

C4_Witness ==
    /\ call.op = "_split_pdf_pages" /\ Done
    /\ call.document.data_bytes.pages = <<"P", "Q", "P">>
    /\ Len(result.value) = 3
    /\ FileContent(result.writes, result.value[2]) = <<"Q">>

\* C5: after a PDF is split, a document that had no title (None or empty)
\* has the trimmed metadata title when the metadata can be read, holds a
\* title and that title is not blank, and the file name in every other
\* case; a title the document already had is unchanged.
C5_TitleFromMetadataOrName ==
    (call.op = "_split_pdf_pages" /\ Done /\ result.kind = "return") =>
        LET doc == call.document
            meta == doc.data_bytes.metadata
        IN result.document.title =
              IF ~doc.title.is_none /\ doc.title.s # <<>> THEN doc.title
              ELSE IF /\ meta.kind = "dict"
                      /\ ~meta.title.is_none
                      /\ Strip(meta.title.s) # <<>>
                   THEN Some(Strip(meta.title.s))
                   ELSE Some(doc.name)

C5_Witness ==
    /\ call.op = "_split_pdf_pages" /\ Done
    /\ call.document.title = None_
    /\ call.document.data_bytes.metadata.kind = "dict"
    /\ call.document.data_bytes.metadata.title = Some(<<" ", "T">>)
    /\ result.document.title = Some(<<"T">>)

\* C8: parse_document of an empty list of paths raises a
\* DocumentProcessingError, and no call to the parsing service was made.
C8_EmptyListRaisesBeforeAnyCall ==
    (call.op = "parse_document" /\ Done /\ call.file_paths = <<>>) =>
        /\ result.kind = "raise"
        /\ result.cls = "DocumentProcessingError"
        /\ result.parser_calls = <<>>

C8_Witness ==
    /\ call.op = "parse_document" /\ Done
    /\ call.file_paths = <<>>
    /\ result.kind = "raise"

C6_CleanupKeepsTheWindow ==
    (call.op = "cleanup_old_files") =>
        \A item \in call.listing :
            item \notin temp_root <=>
                /\ item.is_dir
                /\ item.name.is_date
                /\ item.name.day < call.at.day - call.days_to_keep

\* C9 as stated: when contract analysis is invoked on an uploaded document,
\* exactly one call to the parsing service has been made for that upload,
\* and the prompt sent to the provider holds the document's sections in
\* page order (as process_document joins them) in its contract_text slot
\* and the full law text in its law_text slot.
C9_OneParseCallThenAnalysis ==
    (run.analysis.kind # "none" /\ input_method = "Upload Document") =>
        /\ upload_parse_calls = 1
        /\ run.analysis.sent # <<>>
        /\ \A i \in 1..Len(run.analysis.sent) :
              run.analysis.sent[i] =
                  <<RENTAL_CONTRACT_ANALYZER_PROMPT[1]>> \o TENANCY_LAW
                  \o <<RENTAL_CONTRACT_ANALYZER_PROMPT[3]>>
                  \o Join(<<"\n", "\n">>, StrippedNonBlank(uploaded_file.data_bytes))
                  \o <<RENTAL_CONTRACT_ANALYZER_PROMPT[5]>>

\* C11: a script run whose document processing fails (the service fails,
\* returns nothing, or returns only blank sections) leaves the session's
\* processed documents exactly as they were, yields no contract text, shows
\* the error, renders no Analyze Contract button and starts no analysis.
C11_DocumentErrorKeepsNothing ==
    [][run'.parse.kind = "raise" =>
          /\ processed_documents' = processed_documents
          /\ run'.contract_text = None_
          /\ run'.errors # <<>>
          /\ ~buttons'.analyze
          /\ run'.analysis.kind = "none"]_vars

C11_Witness ==
    /\ run.parse.kind = "raise"
    /\ run.parse.value = <<"Failed to process document: ",
                           "No valid content found in parsed documents">>
    /\ Len(processed_documents) = 1
    /\ uploaded_file.present

IsPrefix(s, t) == Len(s) <= Len(t) /\ SubSeq(t, 1, Len(s)) = s

\* C12: the chat history is append-only: in every step of a session the
\* previous message list is a prefix of the new one, the steps made by the
\* Clear Chat and Confirm Clear buttons included.
C12_ChatHistoryAppendOnly ==
    [][IsPrefix(messages, messages')]_vars

C12_Witness ==
    /\ run.trigger = "confirm_clear"
    /\ messages # <<>>

\* the prompt a facade operation is to build from its arguments
FacadePrompt ==
    IF call.op = "facade.get_response"
    THEN <<LEGAL_ASSISTANT_PROMPT[1]>> \o call.chat_history
         \o <<LEGAL_ASSISTANT_PROMPT[3]>> \o call.user_query
         \o <<LEGAL_ASSISTANT_PROMPT[5]>> \o TENANCY_LAW
         \o <<LEGAL_ASSISTANT_PROMPT[7]>>
    ELSE <<RENTAL_CONTRACT_ANALYZER_PROMPT[1]>> \o TENANCY_LAW
         \o <<RENTAL_CONTRACT_ANALYZER_PROMPT[3]>> \o call.contract_text
         \o <<RENTAL_CONTRACT_ANALYZER_PROMPT[5]>>

\* C13: a facade operation hands the prompt built from its arguments and
\* the law text to the adapter in exactly one get_response call, and every
\* outbound attempt carries that prompt; it returns the adapter's text
\* unchanged, or, when the adapter raises, raises an Exception whose
\* message is "Error processing query: " (get_response) or "Error analyzing
\* contract: " (analyze_contract) followed by the adapter's message.
C13_FacadeForwardsVerbatim ==
    (IsRequest /\ Done) =>
        LET n == Len(result.sent)
            o == call.outcomes[n]
        IN /\ result.calls = <<FacadePrompt>>
           /\ n >= 1
           /\ \A i \in 1..n : result.sent[i] = FacadePrompt
           /\ o.ok => (result.kind = "return" /\ result.value = o.body)
           /\ ~o.ok =>
                 /\ result.kind = "raise"
                 /\ result.cls = "Exception"
                 /\ result.value =
                       <<IF call.op = "facade.get_response"
                         THEN "Error processing query: "
                         ELSE "Error analyzing contract: ",
                         ProviderPrefix(call.llm.cls)>> \o o.body

C13_Witness ==
    /\ call.op = "facade.analyze_contract" /\ Done
    /\ call.llm.cls = "AnthropicLLM"
    /\ result.kind = "raise"
    /\ result.value = <<"Error analyzing contract: ", "Anthropic Error: ", "bad request">>

\* what process_document answers for these sections when everything around
\* the parsing succeeds
ExpectedOutcome(file) ==
    LET contents == StrippedNonBlank(file.data_bytes)
    IN IF contents = <<>> THEN "raise" ELSE "return"

\* C14: once the temporary file has been written, process_document leaves
\* no temporary file behind on any exit path (a result, an empty parse, a
\* failed parse) unless deleting it fails; and a failing deletion changes
\* neither the kind of the outcome nor its value.
C14_TempFileDeleted ==
    (call.op = "process_document" /\ Done /\ call.env.write_ok) =>
        /\ result.temp_file_left = ~call.env.unlink_ok
        /\ result.kind = IF call.env.parser_ok THEN ExpectedOutcome(call.file)
                         ELSE "raise"
        /\ result.kind = "return" =>
              /\ result.value.content =
                    Join(<<"\n", "\n">>, StrippedNonBlank(call.file.data_bytes))
              /\ result.value.file_name = call.file.name
        /\ result.kind = "raise" => result.cls = "DocumentProcessingError"

C14_Witness ==
    /\ call.op = "process_document" /\ Done
    /\ call.env = [write_ok |-> TRUE, parser_ok |-> FALSE, unlink_ok |-> TRUE]
    /\ result.kind = "raise"
    /\ ~result.temp_file_left

\* the failures the environment of a split_document_pages call holds
SplitMustFail ==
    \/ call.env.temp_dir = NoTempDir
    \/ call.document.doc_type \notin DocumentType
    \/ /\ call.document.doc_type = "pdf"
       /\ \/ ~call.document.data_bytes.readable
          \/ call.env.fail_at \in 1..Len(call.document.data_bytes.pages)
    \/ /\ call.document.doc_type = "docx"
       /\ \/ ~call.env.answer.ok
          \/ call.env.fail_at \in 1..(Len(call.env.answer.docs) + 1)

\* C15: split_document_pages either returns page paths numbered in order,
\* all inside the temporary directory made for the call, which is returned
\* with them, or raises DocumentProcessingError: a directory that cannot
\* be made, an unsupported type, an unreadable PDF, a failing write and a
\* failing parsing service all reach the caller as that error type.
C15_SplitReturnsPathsOrDocumentError ==
    (call.op = "split_document_pages" /\ Done) =>
        /\ result.kind = (IF SplitMustFail THEN "raise" ELSE "return")
        /\ result.kind = "return" =>
              /\ result.temp_dir = call.env.temp_dir
              /\ \A i \in 1..Len(result.value) :
                    /\ result.value[i].dir = result.temp_dir
                    /\ result.value[i].stem = "page_"
                    /\ result.value[i].n = i
        /\ result.kind = "raise" => result.cls = "DocumentProcessingError"

C15_Witness ==
    /\ call.op = "split_document_pages" /\ Done
    /\ call.document.doc_type = "pdf"
    /\ ~call.document.data_bytes.readable
    /\ result.cls = "DocumentProcessingError"
    /\ result.value = <<"Document splitting failed: ", "invalid pdf">>

\* C16: splitting a Word document (the disk and the parsing service
\* working) makes exactly one parsing call, on complete.docx holding the
\* document's bytes; for the k sections returned it writes page_1.docx to
\* page_k.docx in section order, the i-th holding the i-th section's text
\* unchanged, and returns exactly these k paths.
C16_WordSplitWritesSectionsVerbatim ==
    (call.op = "_split_word_pages" /\ Done /\ call.answer.ok /\ call.fail_at = 0) =>
        LET k == Len(call.answer.docs)
            complete == CompletePath(call.temp_dir)
        IN /\ result.kind = "return"
           /\ result.parser_calls = <<complete>>
           /\ result.writes[1] = [path |-> complete,
                                  content |-> call.document.data_bytes]
           /\ Len(result.value) = k
           /\ \A i \in 1..k :
                 /\ result.value[i] = PagePath(call.temp_dir, i, ".docx")
                 /\ FileContent(result.writes, result.value[i]) = call.answer.docs[i]
           /\ {result.writes[j].path : j \in 1..Len(result.writes)}
                 = {result.value[i] : i \in 1..k} \cup {complete}

C16_Witness ==
    /\ call.op = "_split_word_pages" /\ Done
    /\ call.answer = ParserReturns(<<<<"s">>, <<" ">>, <<"u", "\n">>>>)
    /\ Len(result.value) = 3
    /\ FileContent(result.writes, result.value[2]) = <<" ">>

\* C17: constructing DocumentProcessor with no key argument and no key in
\* the environment (absent or empty) raises DocumentProcessingError before
\* the parser client and before any temporary directory is created: no
\* object results and temp_files is as it was.
C17_MissingKeyIsFatalAtInit ==
    (/\ call.op = "DocumentProcessor.__init__"
     /\ ~Truthy(call.api_key) /\ ~Truthy(call.env_key)) =>
        /\ result.kind = "raise"
        /\ result.cls = "DocumentProcessingError"
        /\ ~result.parser_created
        /\ temp_root = call.listing

C17_Witness ==
    /\ call.op = "DocumentProcessor.__init__"
    /\ call.api_key = None_ /\ call.env_key = Some(<<>>)
    /\ call.at.day = 1
    /\ result.kind = "raise"
    /\ Entry(DateName(1), TRUE) \notin temp_root

AdapterClass(provider) ==
    CASE provider = "openai" -> "OpenAILLM"
      [] provider = "groq" -> "GroqLLM"
      [] provider = "anthropic" -> "AnthropicLLM"
      [] provider = "gemini" -> "GeminiLLM"

\* C18 as stated: the adapter the assistant is started with is the one of
\* the provider named by the environment variable, configured with that
\* provider's entry of the static mapping.
C18_ProviderNamedByEnvironment ==
    (/\ call.op = "initialize_assistant" /\ Done
     /\ call.environ.provider_variable \in LLMProvider
     /\ result.kind = "object") =>
        /\ result.obj.cls = AdapterClass(call.environ.provider_variable)
        /\ result.obj.config = LLM_CONFIGS[call.environ.provider_variable]

\* a script run in which a document error or a provider error was met
Failed(r) ==
    \/ r.parse.kind = "raise"
    \/ r.chat.kind = "raise"
    \/ r.analysis.kind = "raise"

\* C19: an error ends its own request only.  The run that meets a document
\* or provider error keeps the stored messages and processed documents;
\* and in the run after it a chat query is answered from the stored
\* history (the user message appended, the assistant asked with the
\* history that holds it, its answer appended), and a click on Analyze
\* Contract with a contract text at hand is analysed.
C19_ErrorEndsTheRequestOnly ==
    [][/\ Failed(run') =>
            /\ IsPrefix(messages, messages')
            /\ IsPrefix(processed_documents, processed_documents')
       /\ (Failed(run) /\ run'.trigger = "chat_input") =>
            LET u == messages'[Len(messages) + 1]
            IN /\ Len(messages') > Len(messages)
               /\ u.role = "user"
               /\ run'.chat.kind \in {"return", "raise"}
               /\ run'.chat.calls =
                     <<generate_prompt(u.content, TENANCY_LAW,
                                       ChatHistory(Append(messages, u)))>>
               /\ messages' =
                     IF run'.chat.kind = "return"
                     THEN messages \o <<u, [role |-> "assistant",
                                            content |-> run'.chat.value]>>
                     ELSE Append(messages, u)
       /\ (Failed(run) /\ run'.trigger = "analyze_button"
                       /\ Truthy(run'.contract_text)) =>
            /\ run'.analysis.kind \in {"return", "raise"}
            /\ run'.analysis.calls =
                  <<generate_contract_analysis_prompt(run'.contract_text.s,
                                                      TENANCY_LAW)>>]_vars

C19_Witness ==
    /\ run.trigger = "chat_input" /\ run.chat.kind = "return"
    /\ Len(messages) = 3
    /\ messages[2].role = "user"
    /\ messages[3] = [role |-> "assistant", content |-> <<"answer">>]
    /\ Len(processed_documents) >= 1

\* C20: every assistant message follows a user message directly, and is
\* the provider's answer in the run that appended it; a chat run whose
\* provider call fails ends with the user message last; so assistant
\* messages never outnumber user messages, and user messages may be
\* adjacent.
C20_AssistantFollowsUser ==
    LET n == Len(messages)
        count(role) == Cardinality({i \in 1..n : messages[i].role = role})
    IN /\ \A i \in 1..n :
             /\ messages[i].role \in {"user", "assistant"}
             /\ messages[i].role = "assistant" =>
                   (i > 1 /\ messages[i - 1].role = "user")
       /\ count("assistant") <= count("user")
       /\ run.trigger = "chat_input" =>
             IF run.chat.kind = "return"
             THEN /\ n >= 2
                  /\ messages[n] = [role |-> "assistant", content |-> run.chat.value]
                  /\ messages[n - 1].role = "user"
             ELSE /\ run.chat.kind = "raise"
                  /\ n >= 1
                  /\ messages[n].role = "user"

C20_Witness ==
    /\ run.trigger = "chat_input" /\ run.chat.kind = "raise"
    /\ Len(messages) = 2
    /\ messages[1].role = "user" /\ messages[2].role = "user"

\* C21: in a chat run the user message is in the history when the
\* provider is called: the history string handed to the facade is the
\* "role: content" lines of all messages up to and including the query,
\* whose line is the last; so every prompt sent has the query in its CHAT
\* HISTORY slot and in its USER QUERY slot.
C21_HistoryHoldsTheQuery ==
    (run.trigger = "chat_input") =>
        LET at == IF run.chat.kind = "return" THEN Len(messages) - 1
                  ELSE Len(messages)
            query == messages[at].content
            history == ChatHistory(SubSeq(messages, 1, at))
            line == <<"user", ": ">> \o query
            prompt == <<LEGAL_ASSISTANT_PROMPT[1]>> \o history
                      \o <<LEGAL_ASSISTANT_PROMPT[3]>> \o query
                      \o <<LEGAL_ASSISTANT_PROMPT[5]>> \o TENANCY_LAW
                      \o <<LEGAL_ASSISTANT_PROMPT[7]>>
        IN /\ at >= 1
           /\ messages[at].role = "user"
           /\ Len(history) >= Len(line)
           /\ SubSeq(history, Len(history) - Len(line) + 1, Len(history)) = line
           /\ run.chat.calls = <<prompt>>
           /\ run.chat.sent # <<>>
           /\ \A i \in 1..Len(run.chat.sent) : run.chat.sent[i] = prompt

C21_Witness ==
    /\ run.trigger = "chat_input"
    /\ Len(messages) = 2
    /\ messages[1].role = "user" /\ messages[2].role = "user"
    /\ SubSeq(run.chat.calls[1], 2, 8) =
          <<"user", ": ", "q", "\n", "user", ": ", "q">>

C23_ContentIsTheTrimmedNonBlankSections ==
    (call.op = "process_document" /\ Done /\ result.kind = "return") =>
        LET sections == call.file.data_bytes
            kept == {i \in 1..Len(sections) : Strip(sections[i]) # <<>>}
            nth(j) == CHOOSE i \in kept : Cardinality({k \in kept : k < i}) = j - 1
            blank_line == <<"\n", "\n">>
            joined == Concat([j \in 1..Cardinality(kept) |->
                                IF j = 1 THEN Strip(sections[nth(j)])
                                ELSE blank_line \o Strip(sections[nth(j)])])
        IN /\ result.value.content = joined
           /\ result.value.num_pages = Cardinality(kept)
           /\ 1 <= result.value.num_pages
           /\ result.value.num_pages <= Len(sections)

C23_Witness ==
    /\ call.op = "process_document" /\ Done
    /\ call.file.data_bytes = <<<<"a">>, <<" ", "b", "\n">>, <<"c">>>>
    /\ result.kind = "return"
    /\ result.value.content = <<"a", "\n", "\n", "b", "\n", "\n", "c">>
    /\ result.value.num_pages = 3

====
